---- MODULE Spec2Model ----
(***************************************************************************)
(* Real-time chat relay: the socket.io connection handlers of              *)
(* src/services/socket.js, the Redis connection manager of                 *)
(* src/database/redis.js and the process-level error handlers of           *)
(* src/index.js.                                                           *)
(*                                                                         *)
(* The exported functions of a module and the events of the clients and of *)
(* the Redis server are the operations; the module variables change only   *)
(* as the code changes them.  One action is one handler run to completion  *)
(* (Node runs a handler, its microtasks and the rejections it leaves       *)
(* unhandled before the next I/O event).                                   *)
(***************************************************************************)
EXTENDS Integers, Sequences, FiniteSets, TLC

\* ------------------------------------------------------------------ bounds
NumConns == 2          \* client connections that may ever be opened
MaxInflight == 1       \* messages the Redis server holds at a time
MaxRetries == 30       \* largest retry count handed to the reconnect strategy
MaxTrace == 4          \* join/leave events journaled for one connection
MaxMongoTries == 30    \* reconnection attempts to MongoDB followed
MaxTokens == 2         \* refresh tokens generated in a run

Conns == 1..NumConns
Rooms == {"lobby", "chat:*"}        \* room names a client may send
Bodies == {"hi"}
NoRoom == "undefined"               \* a message frame without a room
MessageRooms == Rooms \cup {NoRoom}
Channels == Rooms                   \* a room name is used as the channel name

\* Handler functions an importer may pass to subscribeTochannel, <<name, id>>:
\* two functions of the same name, one of another name, one anonymous.
Callbacks == {<<"onMessage", 0>>, <<"onMessage", -1>>, <<"onOther", -2>>, <<"", -3>>}
Stamps == {"1", "2"}                \* values of Date.now()

NodeEnvs == {"test", "production"}  \* process.env.NODE_ENV
Users == {"u1", "u2"}               \* registered users
NoToken == <<"", 0>>                \* a request without a refresh token
Traced == 1                         \* the connection whose join/leave events are journaled

VARIABLES
    nodeEnv,            \* index.js:31   NODE_ENV
    strat,              \* a call of the reconnect strategy: argument and outcome
    mongo,              \* mongodb.js:17-22 connectionState, and where connectMongoDB is
    mongoUp,            \* the MongoDB server is reachable
    auth,               \* the Token collection, tokens issued, last auth response
    health,             \* a GET /health request: what the services report, the answer
    exited,             \* process.exit has been called
    shutdownReasons,    \* causes for which gracefulShutdown has been started
    connState,          \* per connection: "new", "open", "closed"
    rooms,              \* per connection: rooms joined (socket.io adapter, sids)
    adapterRooms,       \* per room: connections in it (socket.io adapter, rooms)
    received,           \* per connection: frames emitted to it, <<event, payload>>
    disconnectListeners,\* per connection: 'disconnect' listeners registered
    disconnectRuns,     \* per connection: runs of the 'disconnect' listener
    last,               \* history: the handler that ran last, and what it met
    vacated,            \* history: rooms a disconnect left empty, until joined again
    journal,            \* history: the join/leave events of one connection, when kept
    redisClient,        \* redis.js:19   "null", "closed", "open"
    pubSubClient,       \* redis.js:20   "null", "closed", "open"
    connectionState,    \* redis.js:24-30
    listeners,          \* pub/sub client: handler functions registered per channel
    published,          \* publishes this process issued to the Redis server
    thrown,             \* error the last call of an exported function threw
    brokerUp,           \* the Redis server is reachable
    inflight            \* messages accepted by the Redis server, not yet fanned out

vars == <<nodeEnv, strat, mongo, mongoUp, auth, health, exited, shutdownReasons, connState, rooms, adapterRooms,
          received,
          disconnectListeners, disconnectRuns, last, vacated, journal,
          redisClient,
          pubSubClient, connectionState, listeners, published, thrown,
          brokerUp, inflight>>

socketVars == <<connState, rooms, adapterRooms, received, disconnectListeners,
                disconnectRuns>>
redisVars == <<redisClient, pubSubClient, connectionState, listeners, published>>
brokerVars == <<brokerUp, inflight>>
procVars == <<exited, shutdownReasons>>
sideVars == <<mongo, mongoUp, auth, health>>
envVars == <<nodeEnv, strat, journal, sideVars>>

\* `last` after a handler none of the properties below looks at
Other == [op |-> "other"]


\* ------------------------------------------------------------- index.js
\* gracefulShutdown(code): boostrap never fills runningServices (its first
\* statement, registerMetrics(), is an undeclared name), so no close is
\* awaited and the function reaches process.exit unless NODE_ENV is 'test'.
ExitsAfterShutdown == nodeEnv # "test"

gracefulShutdown(reason) ==
    /\ shutdownReasons' = shutdownReasons \cup {reason}
    /\ exited' = ExitsAfterShutdown

\* process.on('unhandledRejection'): every rejected promise nobody awaits
\* starts the shutdown sequence.
unhandledRejection(reason) == gracefulShutdown(reason)

\* ------------------------------------------------------------- redis.js
\* The guard left out: the call goes on to record and register the handler.
PubSubNotConnected_Unguarded == FALSE

\* guard of subscribeTochannel / subscribeTopattern
PubSubNotConnected == pubSubClient # "open"

\* The guard left out: the call goes on to redisClient.publish.
RedisNotConnected_Unguarded == FALSE

\* guard of publishToChannel
RedisNotConnected == redisClient # "open"

\* subscribeTochannel(channel, callback): the subscription set and the
\* handler table after the call (unchanged when the guard throws).  A named
\* callback is recorded under its name.
subscriptionsAfterSubscribe(channel, callbackName) ==
    IF PubSubNotConnected
    THEN connectionState.subscriptions
    ELSE connectionState.subscriptions \cup {<<channel, callbackName>>}

listenersAfterSubscribe(channel, callback) ==
    IF PubSubNotConnected
    THEN listeners
    ELSE [listeners EXCEPT ![channel] = @ \cup {callback}]

\* callback.name || `callback_${Date.now()}`
CallbackName(callback, now) ==
    IF callback[1] # "" THEN callback[1] ELSE "callback_" \o now

\* subscribeTochannel(channel, callback) called by an importer of redis.js
SubscribeTochannel(channel, callback, now) ==
    /\ ~exited
    /\ thrown' = IF PubSubNotConnected
                 THEN "Redis PubSub client not connected" ELSE "none"
    /\ connectionState' = [connectionState EXCEPT !.subscriptions =
           subscriptionsAfterSubscribe(channel, CallbackName(callback, now))]
    /\ listeners' = listenersAfterSubscribe(channel, callback)
    /\ last' = [op |-> "subscribe", channel |-> channel,
                second |-> last.op = "subscribe" /\ last.channel = channel]
    /\ UNCHANGED <<redisClient, pubSubClient, published>>
    /\ UNCHANGED <<envVars, socketVars, vacated, brokerVars, procVars>>

MAX_RECONNECT_ATTEMPTS == 12
BASE_RECONNECT_DELAY == 1000
MAX_RECONNECT_DELAY == 60000

\* The strategy assigns to `connectState`; the module declares
\* `connectionState` and no `connectState`.
ConnectStateDeclared == FALSE

Min(a, b) == IF a < b THEN a ELSE b

\* reconnectStrategy(retries): what the call gives back to the client library
reconnectStrategy(retries) ==
    IF retries >= MAX_RECONNECT_ATTEMPTS
    THEN IF ConnectStateDeclared
         THEN [kind |-> "error", value |-> 0]
         ELSE [kind |-> "throws", value |-> 0]
    ELSE IF ConnectStateDeclared
         THEN [kind |-> "delay",
               value |-> Min(BASE_RECONNECT_DELAY * 2 ^ retries, MAX_RECONNECT_DELAY)]
         ELSE [kind |-> "throws", value |-> 0]

\* The client library calls the strategy with the number of retries so far.
\* The call reads and writes nothing of connectionState.
CallReconnectStrategy ==
    /\ strat.phase = "pending"
    /\ strat' = [strat EXCEPT !.phase = "returned",
                              !.result = reconnectStrategy(strat.retries)]
    /\ UNCHANGED <<nodeEnv, journal, sideVars, socketVars, last, vacated, redisVars,
                   thrown, brokerVars, procVars>>

\* ------------------------------------------------------------ mongodb.js
MONGO_MAX_RECONNECT_ATTEMPTS == 10
MONGO_BASE_RECONNECT_DELAY == 1000

chatVars == <<socketVars, last, vacated, journal, redisVars, thrown, brokerVars,
              procVars>>

\* getConnectionOptions calls PageTransitionEvent, a name Node.js does not
\* define and the module does not declare.
PageTransitionEventDefined == FALSE

\* await mongoose.connect(uri, getConnectionOptions()): the options are
\* computed first
mongooseConnect ==
    IF ~PageTransitionEventDefined THEN "ReferenceError"
    ELSE IF mongoUp THEN "connected" ELSE "MongooseServerSelectionError"

\* connectMongoDB up to the end of its try block or the start of its catch
\* block: the state is reset, then the connection is tried.  A failure is
\* handed to attemptReconnect in production and rethrown elsewhere.
connectMongoDB ==
    mongo' = [mongo EXCEPT
                 !.isConnected = (mongooseConnect = "connected"),
                 !.lastError = "none",
                 !.reconnectAttempts = 0,
                 !.pc = IF mongooseConnect = "connected" THEN "resolved"
                        ELSE IF nodeEnv = "production" THEN "failed"
                        ELSE "rejected"]

\* connectMongoDB called by an importer of mongodb.js
ConnectMongoDB ==
    /\ mongo.pc \in {"idle", "rejected"}
    /\ connectMongoDB
    /\ UNCHANGED <<nodeEnv, strat, mongoUp, auth, health, chatVars>>

\* attemptReconnect: give up at the limit, else count the attempt and set
\* the timer for BASE * 2^(attempts - 1) ms, attempts being the new count
AttemptReconnect ==
    /\ mongo.pc = "failed"
    /\ mongo.tries < MaxMongoTries
    /\ IF mongo.reconnectAttempts >= MONGO_MAX_RECONNECT_ATTEMPTS
       THEN mongo' = [mongo EXCEPT
                         !.lastError = "Failed to connect to MongoDB after 10 attempts",
                         !.pc = "gaveUp"]
       ELSE mongo' = [mongo EXCEPT
                         !.reconnectAttempts = @ + 1,
                         !.delay = MONGO_BASE_RECONNECT_DELAY * 2 ^ mongo.reconnectAttempts,
                         !.tries = @ + 1,
                         !.pc = "timer"]
    /\ UNCHANGED <<nodeEnv, strat, mongoUp, auth, health, chatVars>>

\* The timer set by attemptReconnect fires: connectMongoDB is called again
ReconnectTimer ==
    /\ mongo.pc = "timer"
    /\ connectMongoDB
    /\ UNCHANGED <<nodeEnv, strat, mongoUp, auth, health, chatVars>>

\* ------------------------------------------------------ controllers/auth.js
\* A refresh token is <<user, serial>>: the signed payload names the user.
\* Tokens the server has signed (jwt.verify accepts them): those generated in
\* this run and, per user, the one signed before it.
Signed == {<<u, n>> : u \in Users, n \in 0..auth.serial}

\* generateTokens(user): sign a new refresh token and store it as the
\* user's Token document (findOneAndUpdate with upsert)
generateTokens(user) ==
    [auth EXCEPT !.serial = @ + 1,
                 !.store[user] = <<user, auth.serial + 1>>]

\* login: `await User,findOne({ email })` evaluates findOne, a name declared
\* nowhere: the handler rejects with a ReferenceError before any token exists
Login(user) ==
    /\ auth' = [auth EXCEPT !.result = [op |-> "login", status |-> 500,
                                         token |-> NoToken]]
    /\ UNCHANGED <<nodeEnv, strat, mongo, mongoUp, health, chatVars>>

\* refreshToken: the token comes in the body or the cookie; it must verify
\* and be the user's stored Token document; then new tokens are generated
RefreshToken(token) ==
    /\ auth.serial < MaxTokens
    /\ IF token = NoToken
       THEN auth' = [auth EXCEPT !.result = [op |-> "refresh", status |-> 400,
                                              token |-> token]]
       ELSE IF token \notin Signed \/ auth.store[token[1]] # token
       THEN auth' = [auth EXCEPT !.result = [op |-> "refresh", status |-> 401,
                                              token |-> token]]
       ELSE auth' = [generateTokens(token[1]) EXCEPT
                        !.result = [op |-> "refresh", status |-> 200,
                                    token |-> token]]
    /\ UNCHANGED <<nodeEnv, strat, mongo, mongoUp, health, chatVars>>

\* logout of an authenticated user: the cookie is cleared and success is
\* answered; the Token collection is not touched
Logout(user) ==
    /\ auth' = [auth EXCEPT
                   !.loggedOut = @ \cup ({auth.store[user]} \ {NoToken}),
                   !.result = [op |-> "logout", status |-> 200,
                               token |-> auth.store[user]]]
    /\ UNCHANGED <<nodeEnv, strat, mongo, mongoUp, health, chatVars>>

\* ------------------------------------------------------- app.js, GET /health
ReadyStates == {0, 1, 2, 3, 99}     \* mongoose.connection.readyState

\* JavaScript truthiness of a string
Truthy(str) == str # ""

\* getMongoDBHealth reads `connection.isConnected`, a property of the
\* mongoose connection object, which has no such property; the module's own
\* connectionState.isConnected is not consulted.
MongooseConnectionHasIsConnected == FALSE

getMongoDBHealth(h) ==
    [status |-> IF MongooseConnectionHasIsConnected /\ h.mongoConnected
                THEN "healthy" ELSE "unhealthy",
     readyState |-> CASE h.readyState = 0 -> "disconnected"
                      [] h.readyState = 1 -> "connected"
                      [] h.readyState = 2 -> "connecting"
                      [] h.readyState = 3 -> "disconnecting"
                      [] h.readyState = 99 -> "uninitialized"
                      [] OTHER -> "unknown"]

getRedisHealth(h) ==
    [status |-> IF h.redisConnected THEN "healthy" ELSE "unhealthy",
     isConnected |-> h.redisConnected,
     clientReady |-> h.clientReady]

\* mongpoHealth.status && redisHealth.status === 'healthy': the comparison
\* binds tighter than &&, so the MongoDB status is only tested for truthiness
overallStatus(mongoHealth, redisHealth) ==
    IF Truthy(mongoHealth.status) /\ redisHealth.status = "healthy"
    THEN "healthy" ELSE "unhealthy"

\* GET /health
GetHealth ==
    /\ health.phase = "pending"
    /\ LET status == overallStatus(getMongoDBHealth(health), getRedisHealth(health))
       IN  health' = [health EXCEPT
                         !.phase = "answered",
                         !.response = [code |-> IF status = "healthy" THEN 200 ELSE 503,
                                       status |-> status]]
    /\ UNCHANGED <<nodeEnv, strat, mongo, mongoUp, auth, chatVars>>

\* ---------------------------------------------------- redis.js, connecting
\* connectRedis: returns the client when it is already open; otherwise
\* creates the main client and then calls setupRedisEvents.coonect(), which
\* is not a function: the TypeError is caught, stored in lastError and
\* rethrown.  No client is ever connected, no event handler is installed.
ConnectRedis ==
    /\ ~exited
    /\ IF redisClient = "open"
       THEN /\ thrown' = "none"
            /\ UNCHANGED <<redisClient, connectionState>>
       ELSE /\ redisClient' = "closed"
            /\ connectionState' = [connectionState EXCEPT !.lastError = "TypeError"]
            /\ thrown' = "TypeError"
    /\ UNCHANGED <<pubSubClient, listeners, published>>
    /\ UNCHANGED <<envVars, socketVars, vacated, brokerVars, procVars>>
    /\ last' = [op |-> "connectRedis", brokerUp |-> brokerUp]

\* publishToChannel(channel, message) called by an importer of redis.js
PublishToChannel(channel, message) ==
    /\ ~exited
    /\ IF RedisNotConnected
       THEN /\ thrown' = "Redis client not connected"
            /\ UNCHANGED published
       ELSE /\ thrown' = "none"
            /\ published' = published \cup {<<channel, message>>}
    /\ UNCHANGED <<redisClient, pubSubClient, connectionState, listeners>>
    /\ UNCHANGED <<envVars, socketVars, vacated, brokerVars, procVars>>
    /\ last' = [op |-> "publish", channel |-> channel, body |-> message,
                notOpen |-> redisClient # "open", published |-> published,
                connectionState |-> connectionState,
                clients |-> <<redisClient, pubSubClient>>]

\* ------------------------------------------------------------ socket.js
\* a connection this process is serving
IsOpen(c) == ~exited /\ connState[c] = "open"

\* the sockets of a room (socket.io adapter)
Members(room) == {c \in Conns : IsOpen(c) /\ room \in rooms[c]}

RECURSIVE Repeat(_, _)
Repeat(frame, n) == IF n = 0 THEN <<>> ELSE <<frame>> \o Repeat(frame, n - 1)

\* handleMesage(message, channel) run n times: io.to(channel).emit('message', message)
handleMesage(message, channel, n) ==
    [c \in Conns |->
        IF c \in Members(channel)
        THEN received[c] \o Repeat(<<"message", message>>, n)
        ELSE received[c]]

\* io.on('connection'): the handlers of the socket are registered, then
\* subscribeTochannel('chat:*', handleMesage) is called without await or
\* catch, so its rejection is an unhandled rejection.
OnConnection(c) ==
    /\ ~exited
    /\ connState[c] = "new"
    /\ \A d \in Conns : d < c => connState[d] # "new"   \* ids are handed out in order
    /\ connState' = [connState EXCEPT ![c] = "open"]
    /\ connectionState' = [connectionState EXCEPT
           !.subscriptions = subscriptionsAfterSubscribe("chat:*", "handleMesage")]
    /\ listeners' = listenersAfterSubscribe("chat:*", <<"handleMesage", c>>)
    /\ IF PubSubNotConnected
       THEN unhandledRejection("BrokerFailure")
       ELSE UNCHANGED procVars
    /\ UNCHANGED <<rooms, adapterRooms, received, disconnectListeners, disconnectRuns>>
    /\ UNCHANGED <<redisClient, pubSubClient, published, thrown>>
    /\ UNCHANGED <<envVars, vacated, brokerVars>>
    /\ last' = Other

\* The journal, when kept, takes the events of connection Traced, in order.
JournalRoom(c) == (journal.on /\ c = Traced) => Len(journal.events) < MaxTrace

journalAfter(c, event, room) ==
    IF journal.on /\ c = Traced
    THEN [journal EXCEPT !.events = Append(@, <<event, room>>)]
    ELSE journal

\* What a join handler meets: is the connection in the room already, is the
\* room empty, is the Redis server reachable, would a subscribe throw
JoinRecord(c, room) ==
    [op |-> "join", conn |-> c, room |-> room,
     already |-> room \in rooms[c],
     first |-> Members(room) = {},
     brokerUp |-> brokerUp,
     subscribeFails |-> PubSubNotConnected]

OnJoin_RequiresBroker(c, room) ==
    /\ ~exited
    /\ connState[c] = "open"
    /\ rooms' = IF brokerUp THEN [rooms EXCEPT ![c] = @ \cup {room}] ELSE rooms
    /\ adapterRooms' = IF brokerUp THEN [adapterRooms EXCEPT ![room] = @ \cup {c}]
                       ELSE adapterRooms
    /\ vacated' = IF brokerUp THEN vacated \ {room} ELSE vacated
    /\ last' = JoinRecord(c, room)
    /\ JournalRoom(c) /\ journal' = journalAfter(c, "join", room)
    /\ UNCHANGED <<connState, received, disconnectListeners, disconnectRuns>>
    /\ UNCHANGED <<nodeEnv, strat, sideVars, redisVars, thrown, brokerVars, procVars>>

\* socket.on('join'): socket.join(room)
OnJoin(c, room) ==
    /\ ~exited
    /\ connState[c] = "open"
    /\ rooms' = [rooms EXCEPT ![c] = @ \cup {room}]
    /\ adapterRooms' = [adapterRooms EXCEPT ![room] = @ \cup {c}]
    /\ vacated' = vacated \ {room}
    /\ last' = JoinRecord(c, room)
    /\ JournalRoom(c) /\ journal' = journalAfter(c, "join", room)
    /\ UNCHANGED <<connState, received, disconnectListeners, disconnectRuns>>
    /\ UNCHANGED <<nodeEnv, strat, sideVars, redisVars, thrown, brokerVars, procVars>>

OnLeave_Keeps(c, room) ==
    /\ ~exited
    /\ connState[c] = "open"
    /\ rooms' = rooms
    /\ adapterRooms' = adapterRooms
    /\ JournalRoom(c) /\ journal' = journalAfter(c, "leave", room)
    /\ UNCHANGED <<connState, received, disconnectListeners, disconnectRuns>>
    /\ UNCHANGED <<nodeEnv, strat, sideVars, vacated, redisVars, thrown, brokerVars, procVars>>
    /\ last' = [op |-> "leave", conn |-> c, room |-> room, was |-> room \in rooms[c]]

OnLeave_ErrorsWhenAbsent(c, room) ==
    /\ ~exited
    /\ connState[c] = "open"
    /\ rooms' = [rooms EXCEPT ![c] = @ \ {room}]
    /\ adapterRooms' = [adapterRooms EXCEPT ![room] = @ \ {c}]
    /\ received' = IF room \in rooms[c] THEN received
                   ELSE [received EXCEPT ![c] = Append(@, <<"error", "NotJoined">>)]
    /\ JournalRoom(c) /\ journal' = journalAfter(c, "leave", room)
    /\ UNCHANGED <<connState, disconnectListeners, disconnectRuns>>
    /\ UNCHANGED <<nodeEnv, strat, sideVars, vacated, redisVars, thrown, brokerVars, procVars>>
    /\ last' = [op |-> "leave", conn |-> c, room |-> room, was |-> room \in rooms[c]]

\* socket.on('leave'): socket.leave(room)
OnLeave(c, room) ==
    /\ ~exited
    /\ connState[c] = "open"
    /\ rooms' = [rooms EXCEPT ![c] = @ \ {room}]
    /\ adapterRooms' = [adapterRooms EXCEPT ![room] = @ \ {c}]
    /\ JournalRoom(c) /\ journal' = journalAfter(c, "leave", room)
    /\ UNCHANGED <<connState, received, disconnectListeners, disconnectRuns>>
    /\ UNCHANGED <<nodeEnv, strat, sideVars, vacated, redisVars, thrown, brokerVars, procVars>>
    /\ last' = [op |-> "leave", conn |-> c, room |-> room, was |-> room \in rooms[c]]

\* socket.on('message'): the handler reads `messageData`, a name declared
\* nowhere, before anything else: the async handler rejects with a
\* ReferenceError.  publishToChannel and the registration of the
\* 'disconnect' listener, which follow that line, are never reached.
OnMessage(c, room, body) ==
    /\ ~exited
    /\ connState[c] = "open"
    /\ unhandledRejection("ReferenceError")
    /\ last' = [op |-> "message", conn |-> c, room |-> room, body |-> body,
                joined |-> room \in rooms[c], brokerUp |-> brokerUp,
                before |-> received,
                second |-> /\ last.op = "message"
                           /\ last.conn = c /\ last.room = room
                           /\ last.joined /\ last.brokerUp,
                firstIssued |-> /\ last.op = "message"
                                /\ <<room, last.body>> \in published]
    /\ UNCHANGED <<socketVars, vacated, redisVars, thrown, envVars, brokerVars>>

OnDisconnect_KeepsRooms(c) ==
    /\ ~exited
    /\ connState[c] = "open"
    /\ connState' = [connState EXCEPT ![c] = "closed"]
    /\ rooms' = [rooms EXCEPT ![c] = {}]
    /\ adapterRooms' = adapterRooms
    /\ disconnectRuns' = [disconnectRuns EXCEPT ![c] = @ + disconnectListeners[c]]
    /\ vacated' = vacated \cup {r \in rooms[c] : Members(r) = {c}}
    /\ last' = Other
    /\ UNCHANGED <<received, disconnectListeners>>
    /\ UNCHANGED <<envVars, redisVars, thrown, brokerVars, procVars>>

\* The connection closes: socket.io takes the socket out of its rooms and
\* runs each registered 'disconnect' listener once.
OnDisconnect(c) ==
    /\ ~exited
    /\ connState[c] = "open"
    /\ connState' = [connState EXCEPT ![c] = "closed"]
    /\ rooms' = [rooms EXCEPT ![c] = {}]
    /\ adapterRooms' = [r \in Rooms |-> adapterRooms[r] \ {c}]
    /\ disconnectRuns' = [disconnectRuns EXCEPT ![c] = @ + disconnectListeners[c]]
    /\ vacated' = vacated \cup {r \in rooms[c] : Members(r) = {c}}
    /\ last' = Other
    /\ UNCHANGED <<received, disconnectListeners>>
    /\ UNCHANGED <<envVars, redisVars, thrown, brokerVars, procVars>>

\* --------------------------------------------------------- Redis server
\* Another publisher (another instance, a tool) publishes on a channel.
ExternalPublish(channel, message) ==
    /\ brokerUp
    /\ Cardinality(inflight) < MaxInflight
    /\ <<channel, message>> \notin inflight
    /\ inflight' = inflight \cup {<<channel, message>>}
    /\ UNCHANGED brokerUp
    /\ UNCHANGED <<envVars, socketVars, vacated, redisVars, thrown, procVars>>
    /\ last' = Other

\* Handlers of this process the server reaches for a channel: those that
\* an open pub/sub client has registered for exactly that channel name.
HandlersFor(channel) ==
    IF pubSubClient = "open" /\ ~exited
    THEN Cardinality(listeners[channel]) ELSE 0

\* The server fans a message out; each registered handler runs once.
BrokerDeliver(channel, message) ==
    /\ brokerUp
    /\ <<channel, message>> \in inflight
    /\ inflight' = inflight \ {<<channel, message>>}
    /\ received' = handleMesage(message, channel, HandlersFor(channel))
    /\ last' = [op |-> "dispatch", channel |-> channel, body |-> message,
                handlers |-> HandlersFor(channel), members |-> Members(channel),
                before |-> received]
    /\ UNCHANGED <<brokerUp, vacated>>
    /\ UNCHANGED <<connState, rooms, adapterRooms, disconnectListeners, disconnectRuns>>
    /\ UNCHANGED <<envVars, redisVars, thrown, procVars>>

\* The Redis server becomes unreachable / reachable again.  No client of
\* this process is connected, so no client event follows.
BrokerDrop ==
    /\ brokerUp
    /\ brokerUp' = FALSE
    /\ inflight' = {}
    /\ UNCHANGED <<envVars, socketVars, vacated, redisVars, thrown, procVars>>
    /\ last' = Other

BrokerRestore ==
    /\ ~brokerUp
    /\ brokerUp' = TRUE
    /\ UNCHANGED inflight
    /\ UNCHANGED <<envVars, socketVars, vacated, redisVars, thrown, procVars>>
    /\ last' = Other

\* ---------------------------------------------------------------- system
NoJournal == [on |-> FALSE, events |-> <<>>]

NoMongo == [pc |-> "idle", isConnected |-> FALSE, lastError |-> "none",
            reconnectAttempts |-> 0, delay |-> 0, tries |-> 0]

MongoIdle == mongo = NoMongo /\ mongoUp = TRUE

NoAuth == [store |-> [u \in Users |-> NoToken], serial |-> 0, loggedOut |-> {},
           result |-> [op |-> "none", status |-> 0, token |-> NoToken]]

NoHealth == [phase |-> "none", mongoConnected |-> FALSE, readyState |-> 0,
             redisConnected |-> FALSE, clientReady |-> FALSE,
             response |-> [code |-> 0, status |-> ""]]

SideIdle == auth = NoAuth /\ health = NoHealth

NoCall == [phase |-> "none", retries |-> 0, result |-> [kind |-> "none", value |-> 0]]

InitRest ==
    /\ nodeEnv \in NodeEnvs
    /\ exited = FALSE
    /\ shutdownReasons = {}
    /\ connState = [c \in Conns |-> "new"]
    /\ rooms = [c \in Conns |-> {}]
    /\ adapterRooms = [r \in Rooms |-> {}]
    /\ received = [c \in Conns |-> <<>>]
    /\ disconnectListeners = [c \in Conns |-> 0]
    /\ disconnectRuns = [c \in Conns |-> 0]
    /\ last = Other
    /\ vacated = {}
    /\ redisClient = "null"
    /\ pubSubClient = "null"
    /\ connectionState = [isConnected |-> FALSE, lastError |-> "none",
                          subscriptions |-> {}]
    /\ listeners = [ch \in Channels |-> {}]
    /\ published = {}
    /\ thrown = "none"
    /\ brokerUp = TRUE
    /\ inflight = {}

Init ==
    /\ InitRest
    /\ strat = NoCall
    /\ journal = NoJournal
    /\ MongoIdle
    /\ SideIdle

Next ==
    \/ \E c \in Conns : OnConnection(c)
    \/ \E c \in Conns, r \in Rooms : OnJoin(c, r)
    \/ \E c \in Conns, r \in Rooms : OnLeave(c, r)
    \/ \E c \in Conns, r \in MessageRooms, b \in Bodies : OnMessage(c, r, b)
    \/ \E c \in Conns : OnDisconnect(c)
    \/ ConnectRedis
    \/ \E ch \in Channels, m \in Bodies : PublishToChannel(ch, m)
    \/ \E ch \in Channels, cb \in Callbacks, now \in Stamps :
          SubscribeTochannel(ch, cb, now)
    \/ \E ch \in Channels, m \in Bodies : ExternalPublish(ch, m)
    \/ \E ch \in Channels, m \in Bodies : BrokerDeliver(ch, m)
    \/ BrokerDrop
    \/ BrokerRestore

Spec == Init /\ [][Next]_vars

\* The reconnect strategy as a function of its argument
StrategyInit ==
    /\ InitRest
    /\ strat \in {[NoCall EXCEPT !.phase = "pending", !.retries = r] :
                     r \in 0..MaxRetries}
    /\ journal = NoJournal
    /\ MongoIdle
    /\ SideIdle

StrategyNext == CallReconnectStrategy

StrategySpec == StrategyInit /\ [][StrategyNext]_vars

\* connectMongoDB and its reconnection attempts
MongoInit ==
    /\ InitRest
    /\ strat = NoCall
    /\ journal = NoJournal
    /\ mongo = NoMongo
    /\ mongoUp \in BOOLEAN
    /\ SideIdle

MongoNext ==
    \/ ConnectMongoDB
    \/ AttemptReconnect
    \/ ReconnectTimer

MongoSpec == MongoInit /\ [][MongoNext]_vars

\* The auth controller over a Token collection that holds, per user, no
\* document or the refresh token signed for the user earlier
AuthInit ==
    /\ InitRest
    /\ strat = NoCall
    /\ journal = NoJournal
    /\ MongoIdle
    /\ health = NoHealth
    /\ auth \in {[NoAuth EXCEPT !.store = st] :
                    st \in {f \in [Users -> {NoToken} \cup {<<u, 0>> : u \in Users}] :
                               \A u \in Users : f[u] \in {NoToken, <<u, 0>>}}}

AuthNext ==
    \/ \E user \in Users : Login(user)
    \/ \E token \in Signed \cup {NoToken} : RefreshToken(token)
    \/ \E user \in Users : Logout(user)

AuthSpec == AuthInit /\ [][AuthNext]_vars

\* GET /health as a function of what the two services report
HealthInit ==
    /\ InitRest
    /\ strat = NoCall
    /\ journal = NoJournal
    /\ MongoIdle
    /\ auth = NoAuth
    /\ health \in {[NoHealth EXCEPT !.phase = "pending", !.mongoConnected = mc,
                                     !.readyState = rs, !.redisConnected = rc,
                                     !.clientReady = cr] :
                      mc \in BOOLEAN, rs \in ReadyStates, rc \in BOOLEAN,
                      cr \in BOOLEAN}

HealthNext == GetHealth

HealthSpec == HealthInit /\ [][HealthNext]_vars

\* One connection and its join and leave frames, journaled
JoinLeaveInit ==
    /\ InitRest
    /\ strat = NoCall
    /\ journal = [NoJournal EXCEPT !.on = TRUE]
    /\ MongoIdle
    /\ SideIdle

JoinLeaveNext ==
    \/ OnConnection(Traced)
    \/ \E room \in Rooms : OnJoin(Traced, room)
    \/ \E room \in Rooms : OnLeave(Traced, room)

JoinLeaveSpec == JoinLeaveInit /\ [][JoinLeaveNext]_vars

\* ------------------------------------------------------------ properties
\* a subscription of this process for the channel of a room
Subscribed(room) ==
    \/ listeners[room] # {}
    \/ \E s \in connectionState.subscriptions : s[1] = room

\* C1: in every state and for every room, the relay holds a broker
\* subscription for the room's channel if and only if at least one open
\* connection is joined to the room.
C1_SubscribedIffMembers ==
    \A r \in Rooms : Subscribed(r) <=> Members(r) # {}

\* C2: a message event {room, body} from a connection joined to the room,
\* sent while the broker is reachable, is published to the room's channel,
\* and when the broker delivers it every connection joined to the room at
\* dispatch time receives a `message` frame.
C2_MessagePublishedAndDelivered ==
    /\ (last.op = "message" /\ last.joined /\ last.brokerUp)
          => <<last.room, last.body>> \in published
    /\ (last.op = "dispatch" /\ <<last.channel, last.body>> \in published)
          => \A c \in last.members :
                received[c] = Append(last.before[c], <<"message", last.body>>)

\* C5: a step in which the broker subscribe made for one connection fails
\* starts no shutdown, does not exit the process and leaves the state and
\* the room memberships of the other connections as they were.
C5_BrokerFailureIsContained ==
    [][\A c \in Conns :
          (connState[c] = "new" /\ connState'[c] = "open" /\ PubSubNotConnected)
             => /\ shutdownReasons' = shutdownReasons
                /\ exited' = exited
                /\ \A d \in Conns \ {c} :
                      rooms'[d] = rooms[d] /\ connState'[d] = connState[d]]_vars

\* C6: a connection that has disconnected is a member of no room; a room
\* its disconnect left empty has no broker subscription and no handler; a
\* message the broker later fans out on that room's channel is consumed by
\* no handler of this process and reaches no connection.
C6_DisconnectLeavesNothing ==
    /\ \A c \in Conns : connState[c] = "closed" => rooms[c] = {}
    /\ \A r \in vacated : Members(r) = {} /\ ~Subscribed(r)
    /\ (last.op = "dispatch" /\ last.channel \in vacated)
          => last.handlers = 0 /\ received = last.before

\* C6 witness: a connection has disconnected, and the broker has fanned a
\* message out on the channel of a room that disconnect left empty.
C6_Witness ==
    /\ \E c \in Conns : connState[c] = "closed"
    /\ last.op = "dispatch"
    /\ last.channel \in vacated

\* C7: for every connection that has closed, the disconnect handling has
\* run exactly once.
C7_DisconnectRunsOnce ==
    \A c \in Conns : connState[c] = "closed" => disconnectRuns[c] = 1

\* C8: a message event naming a room the sender is not joined to causes no
\* publish to that room's channel, is answered with an error frame
\* (NotJoined) to the sender, and leaves the connection open.
C8_NotJoinedIsRejected ==
    (last.op = "message" /\ last.room \in Rooms /\ ~last.joined)
       => /\ <<last.room, last.body>> \notin published
          /\ \E i \in DOMAIN received[last.conn] :
                received[last.conn][i] = <<"error", "NotJoined">>
          /\ IsOpen(last.conn)

\* C11: publishToChannel called while the main client is absent or not
\* open throws to its caller, hands nothing to the broker, and leaves the
\* connection state, the clients and the recorded subscriptions as they were.
C11_PublishWhenClosedThrows ==
    (last.op = "publish" /\ last.notOpen)
       => /\ thrown = "Redis client not connected"
          /\ published = last.published
          /\ connectionState = last.connectionState
          /\ <<redisClient, pubSubClient>> = last.clients

\* C11 witness: publishToChannel has just been called without an open
\* main client and has thrown.
C11_Witness ==
    /\ last.op = "publish"
    /\ last.notOpen
    /\ thrown = "Redis client not connected"

\* C12: after subscribe has been called twice for the same channel there is
\* exactly one underlying broker subscription and one recorded subscription
\* entry for that channel, whatever the two handler functions are.
C12_SubscribeTwiceOneSubscription ==
    (last.op = "subscribe" /\ last.second)
       => /\ listeners[last.channel] # {}
          /\ Cardinality({s \in connectionState.subscriptions :
                             s[1] = last.channel}) = 1

\* C13: when a message action fails or its frame is malformed (no room),
\* the requesting connection, and no other, receives an `error` frame;
\* nothing is published and the connection remains open.
C13_FailureAnsweredWithErrorFrame ==
    (last.op = "message"
        /\ (last.room = NoRoom \/ <<last.room, last.body>> \notin published))
       => /\ Len(received[last.conn]) = Len(last.before[last.conn]) + 1
          /\ received[last.conn][Len(received[last.conn])][1] = "error"
          /\ \A d \in Conns \ {last.conn} : received[d] = last.before[d]
          /\ \A ch \in Channels : <<ch, last.body>> \notin published
          /\ IsOpen(last.conn)

\* C14: from MAX_RECONNECT_ATTEMPTS retries on, the reconnect strategy
\* gives back an error instead of a delay, and the failure is recorded as
\* lastError of the health state.
C14_StrategyGivesUp ==
    (strat.phase = "returned" /\ strat.retries >= MAX_RECONNECT_ATTEMPTS)
       => /\ strat.result.kind = "error"
          /\ connectionState.lastError = "ReconnectFailed"

\* C16: connectRedis called while the Redis server is reachable resolves
\* with an open client; it throws only when the server is unreachable, and
\* then the error is in lastError.
C16_ConnectResolvesWhenReachable ==
    last.op = "connectRedis"
       => IF last.brokerUp
          THEN thrown = "none" /\ redisClient = "open"
          ELSE thrown # "none" /\ connectionState.lastError = thrown

\* C17: when a connection joins an empty room and the subscribe to the Redis
\* server fails, the connection is not a member of the room afterwards and
\* has been sent a JoinFailed error.
C17_FailedSubscribeRollsBackJoin ==
    (last.op = "join" /\ last.first /\ last.subscribeFails)
       => /\ last.room \notin rooms[last.conn]
          /\ \E i \in 1..Len(received[last.conn]) :
                 received[last.conn][i] = <<"error", "JoinFailed">>

\* C18: a step in which the Redis server drops or comes back, or in which a
\* Redis operation throws, changes no connection's room memberships; a join
\* handled while the Redis server is unreachable makes the connection a member.
C18_MembershipIndependentOfBroker ==
    [][/\ (\/ brokerUp' # brokerUp
           \/ (last'.op \in {"publish", "subscribe", "connectRedis"}
                  /\ thrown' # "none")
           \/ \E c \in Conns : connState[c] = "new" /\ connState'[c] = "open"
                                  /\ PubSubNotConnected)
          => /\ rooms' = rooms
             /\ \A r \in Rooms : Members(r)' = Members(r)
       /\ (last'.op = "join" /\ ~last'.brokerUp)
          => /\ last'.room \in rooms'[last'.conn]
             /\ received' = received
             /\ thrown' = thrown
      ]_vars

C18_Witness ==
    /\ last.op = "join"
    /\ ~last.brokerUp
    /\ last.room \in rooms[last.conn]

\* C19: a join of a room the connection is in already changes no membership
\* and no subscription; a leave of a room the connection is not in changes
\* no membership and no subscription and reports no error.
C19_JoinLeaveIdempotent ==
    [][/\ (last'.op = "join" /\ last'.already)
          => /\ rooms' = rooms
             /\ listeners' = listeners
             /\ connectionState' = connectionState
       /\ (last'.op = "leave" /\ ~last'.was)
          => /\ rooms' = rooms
             /\ listeners' = listeners
             /\ connectionState' = connectionState
             /\ received' = received
             /\ thrown' = thrown
             /\ shutdownReasons' = shutdownReasons
      ]_vars

C19_Witness ==
    \/ last.op = "join" /\ last.already /\ last.room \in rooms[last.conn]
    \/ last.op = "leave" /\ ~last.was /\ last.room \notin rooms[last.conn]

\* joins minus leaves of `room` in a sequence of events
RECURSIVE NetJoins(_, _)
NetJoins(room, events) ==
    IF events = <<>> THEN 0
    ELSE NetJoins(room, Tail(events))
         + (IF Head(events) = <<"join", room>> THEN 1
            ELSE IF Head(events) = <<"leave", room>> THEN -1 ELSE 0)

\* the last event about `room` in a sequence of events is a join
LastIsJoin(room, events) ==
    LET about == {i \in 1..Len(events) : events[i][2] = room}
    IN  /\ about # {}
        /\ events[CHOOSE i \in about : \A j \in about : j <= i][1] = "join"

\* C20 as stated: after a sequence of join/leave events of one connection,
\* its room set is the set of rooms with more joins than leaves.
C20_RoomsAreNetPositive ==
    rooms[Traced] = {r \in Rooms : NetJoins(r, journal.events) > 0}

\* C20 amended: after a sequence of join/leave events of one connection,
\* its room set is the set of rooms whose last event in the sequence is a join.
C20_RoomsAreLastJoined ==
    journal.on => rooms[Traced] = {r \in Rooms : LastIsJoin(r, journal.events)}

C20_Witness ==
    /\ journal.on
    /\ \E r \in Rooms : /\ NetJoins(r, journal.events) > 0
                        /\ ~LastIsJoin(r, journal.events)
                        /\ r \notin rooms[Traced]

\* C21: when a connection joined to a room sends a message to it and then,
\* as the next event, another one, with the Redis server reachable, the
\* first publish has been issued before the second handler runs and the
\* second publish is issued by it, so the publishes reach the server in
\* the order sent.
C21_PublishesInSendOrder ==
    (last.op = "message" /\ last.second /\ last.joined /\ last.brokerUp)
       => /\ last.firstIssued
          /\ <<last.room, last.body>> \in published

C24_MongoReconnectBounded ==
    (nodeEnv = "production" /\ ~mongoUp)
       => /\ mongo.tries <= MONGO_MAX_RECONNECT_ATTEMPTS
          /\ mongo.tries >= 1
                => mongo.delay = MONGO_BASE_RECONNECT_DELAY * 2 ^ (mongo.tries - 1)
          /\ (mongo.pc = "failed" /\ mongo.tries = MONGO_MAX_RECONNECT_ATTEMPTS)
                => mongo.reconnectAttempts = MONGO_MAX_RECONNECT_ATTEMPTS

\* C25: a refresh token that was the user's stored token when the user's
\* logout succeeded is not exchanged for a new access token by refreshToken.
C25_LogoutInvalidatesRefreshToken ==
    (auth.result.op = "refresh" /\ auth.result.token \in auth.loggedOut)
       => auth.result.status # 200

\* C26: for a retry count below MAX_RECONNECT_ATTEMPTS the reconnect strategy
\* returns the delay min(1000 * 2^r, 60000) ms, which is at most 60000 and
\* at least the delay for any smaller retry count.
C26_StrategyDelay ==
    (strat.phase = "returned" /\ strat.retries < MAX_RECONNECT_ATTEMPTS)
       => /\ strat.result.kind = "delay"
          /\ strat.result.value
                = Min(BASE_RECONNECT_DELAY * 2 ^ strat.retries, MAX_RECONNECT_DELAY)
          /\ strat.result.value <= MAX_RECONNECT_DELAY
          /\ \A r \in 0..strat.retries :
                reconnectStrategy(r).value <= strat.result.value

TypeOK ==
    /\ nodeEnv \in NodeEnvs
    /\ exited \in BOOLEAN
    /\ connState \in [Conns -> {"new", "open", "closed"}]
    /\ rooms \in [Conns -> SUBSET Rooms]
    /\ adapterRooms \in [Rooms -> SUBSET Conns]
    /\ redisClient \in {"null", "closed", "open"}
    /\ pubSubClient \in {"null", "closed", "open"}
    /\ \A ch \in Channels : IsFiniteSet(listeners[ch])
    /\ brokerUp \in BOOLEAN
    /\ journal.on \in BOOLEAN
    /\ Len(journal.events) <= MaxTrace
    /\ strat.retries \in 0..MaxRetries
====
